---- MODULE Spec2Model ----
(***************************************************************************)
(* Gomoku (wuziqi) game component, src/src/components/App.jsx.             *)
(*                                                                         *)
(* The state is the component's React state after the mount effect has     *)
(* run; every action is one event handler (or one timer callback), run to  *)
(* completion on the state of the latest render.  A handler reads the      *)
(* state of the render it was created in: checkWin and checkDraw, called   *)
(* from handleCellClick, therefore read the board BEFORE the stone of the  *)
(* current click is on it (setBoard does not change the closure's board).  *)
(*                                                                         *)
(* timerPending says that at least one setTimeout callback of a rejection  *)
(* has not fired yet; the callbacks all do the same, so their number is    *)
(* not kept.  The notices and modal texts are the source's strings in      *)
(* English.  lastOp records the handler that ran last, its arguments and   *)
(* the status it found (and, for a placement, the state it found): it is   *)
(* read by the properties only.                                            *)
(***************************************************************************)
EXTENDS Integers, Sequences, FiniteSets

VARIABLES board, currentPlayer, gameStatus, moveHistory, lastMove,
          showModal, modalContent, errorMessage, timerPending, lastOp

gameVars == <<board, currentPlayer, gameStatus, moveHistory, lastMove>>
vars == <<board, currentPlayer, gameStatus, moveHistory, lastMove,
          showModal, modalContent, errorMessage, timerPending, lastOp>>

-----------------------------------------------------------------------------
(* Program constants *)

BOARD_SIZE == 15

PLAYING == "playing"
PAUSED == "paused"
BLACK_WIN == "black_win"
WHITE_WIN == "white_win"
DRAW == "draw"
GAME_STATUS == {PLAYING, PAUSED, BLACK_WIN, WHITE_WIN, DRAW}

EMPTY == 0
BLACK == 1
WHITE == 2

\* null of lastMove; a move is <<row, col>>
null == <<>>

\* the three notices of the handlers, and the cleared notice ''
MsgNotPlaying == "game over, start a new game"
MsgOccupied == "cell occupied"
MsgNothingToUndo == "nothing to undo"
NoMsg == ""

\* modalContent.message ('' before the first game end)
MsgBlackWins == "black wins"
MsgWhiteWins == "white wins"
MsgDraw == "draw game"

Idx == 0 .. (BOARD_SIZE - 1)

-----------------------------------------------------------------------------
(* Bounds of the model *)

\* cells of the full-board line of play left to free play
FillFree == 3

-----------------------------------------------------------------------------
(* Pure helpers of the handlers *)

\* Array(BOARD_SIZE).fill(null).map(() => Array(BOARD_SIZE).fill(EMPTY))
EmptyBoard == [r \in Idx |-> [c \in Idx |-> EMPTY]]

\* one scanning loop of checkWin: the number of iterations i = start..4 that
\* count before the first break
RECURSIVE Scan(_, _, _, _, _, _, _)
Scan(b, row, col, dx, dy, player, i) ==
    LET newRow == row + i * dx
        newCol == col + i * dy
    IN IF i < 5
          /\ newRow >= 0 /\ newRow < BOARD_SIZE
          /\ newCol >= 0 /\ newCol < BOARD_SIZE
          /\ b[newRow][newCol] = player
       THEN 1 + Scan(b, row, col, dx, dy, player, i + 1)
       ELSE 0

\* variant of directions: the anti-diagonal [1, -1] is missing
directionsThree == {<<0, 1>>, <<1, 0>>, <<1, 1>>}

directions == {<<0, 1>>, <<1, 0>>, <<1, 1>>, <<1, -1>>}

\* count of one direction: 1 for (row, col) itself, plus both loops
LineCount(b, row, col, d, player) ==
    1 + Scan(b, row, col, d[1], d[2], player, 1)
      + Scan(b, row, col, 0 - d[1], 0 - d[2], player, 1)

\* variant of checkWin: "count > 5" for "count >= 5"
checkWinMoreThanFive(b, row, col, player) ==
    \E d \in directions : LineCount(b, row, col, d, player) > 5

\* checkWin on the board b the closure holds
checkWin(b, row, col, player) ==
    \E d \in directions : LineCount(b, row, col, d, player) >= 5

\* checkDraw on the board b the closure holds
checkDraw(b) ==
    ~ \E i \in Idx : \E j \in Idx : b[i][j] = EMPTY

\* variant of notPlaying: only a finished game counts, a paused one does not
notPlayingOver(status) == status \in {BLACK_WIN, WHITE_WIN, DRAW}

\* gameStatus !== GAME_STATUS.PLAYING
notPlaying(status) == status # PLAYING

\* variant of isOccupied: the cell is compared with BLACK, not with EMPTY
isOccupiedByBlack(b, row, col) == col \notin Idx \/ b[row][col] = BLACK

\* board[row][col] !== EMPTY for a row of the grid: a stone, or undefined when
\* col is no index of the row
isOccupied(b, row, col) == col \notin Idx \/ b[row][col] # EMPTY

\* variant of PlaceOn: row and column swapped
PlaceOnTransposed(b, row, col, player) ==
    [b EXCEPT ![col][row] = player]

\* newBoard = board.map(row => [...row]); newBoard[row][col] = player
PlaceOn(b, row, col, player) ==
    [b EXCEPT ![row][col] = player]

winnerStatus(player) ==
    IF player = BLACK THEN BLACK_WIN ELSE WHITE_WIN

winnerMessage(player) ==
    IF player = BLACK THEN MsgBlackWins ELSE MsgWhiteWins

\* variant of otherPlayer: the turn does not change
otherPlayerSame(player) == player

otherPlayer(player) ==
    IF player = BLACK THEN WHITE ELSE BLACK

\* undo's rebuild: newMoveHistory.forEach(move => newBoard[move.row][move.col]
\* = move.player), the moves h[lo] .. h[hi] applied to b in order (the range is
\* halved, which applies them in the same order as one pass)
RECURSIVE Replay(_, _, _, _)
Replay(b, h, lo, hi) ==
    IF lo > hi THEN b
    ELSE IF lo = hi THEN [b EXCEPT ![h[lo].row][h[lo].col] = h[lo].player]
    ELSE LET mid == (lo + hi) \div 2
         IN Replay(Replay(b, h, lo, mid), h, mid + 1, hi)

\* variant of RebuildBoard: forEach over moveHistory, not over newMoveHistory
RebuildBoardStale(h) == Replay(EmptyBoard, moveHistory, 1, Len(moveHistory))

RebuildBoard(h) == Replay(EmptyBoard, h, 1, Len(h))

\* variant of lastPlayer: the opponent of the player of the undone move
lastPlayerOpponent(h) == otherPlayer(h[Len(h)].player)

\* moveHistory[moveHistory.length - 1].player
lastPlayer(h) == h[Len(h)].player

\* variant of pauseTarget: everything but PAUSED is paused
pauseTargetPausesAll(status) ==
    IF status = PAUSED THEN PLAYING ELSE PAUSED

\* variant of pauseTarget: everything but PLAYING resumes
pauseTargetResumes(status) ==
    IF status = PLAYING THEN PAUSED ELSE PLAYING

\* the status handlePauseResume sets
pauseTarget(status) ==
    IF status = PLAYING THEN PAUSED
    ELSE IF status = PAUSED THEN PLAYING
    ELSE status

\* variant of LastOf: the last entry of moveHistory, not of newMoveHistory
LastOfStale(h) ==
    IF Len(h) > 0
    THEN <<moveHistory[Len(moveHistory)].row, moveHistory[Len(moveHistory)].col>>
    ELSE null

\* last ? { row: last.row, col: last.col } : null
LastOf(h) ==
    IF Len(h) > 0 THEN <<h[Len(h)].row, h[Len(h)].col>> ELSE null

-----------------------------------------------------------------------------
(* The user: which cells are clicked.  The handlers are modelled in full;  *)
(* only the choice of the clicked cell is bounded.  A game follows one of  *)
(* a few lines of play (an opening, cell by cell) and is then played       *)
(* freely on the cells the line leaves open.  Undo, pause, new game and    *)
(* the clicks that are rejected occur at every point of every line, except *)
(* inside the 222-move opening of the line that fills the board.           *)

\* a full board without five in a row: stones in pairs, each row shifted by two
Pattern(cell) == IF (cell[2] + 2 * cell[1]) % 4 < 2 THEN BLACK ELSE WHITE

\* the column of the j-th pair-cell of a row whose pairs start at column first
PairCol(first, j) == first + 4 * (j \div 2) + (j % 2)

\* the k-th BLACK cell of the pattern, row by row (k from 0): an even row
\* holds 8 (columns 0,1,4,5,..), an odd row 7 (columns 2,3,6,7,..)
BlackCell(k) ==
    LET p == k \div BOARD_SIZE
        j == k % BOARD_SIZE
    IN IF j < 8 THEN <<2 * p, PairCol(0, j)>>
       ELSE <<2 * p + 1, PairCol(2, j - 8)>>

\* the k-th WHITE cell of the pattern: 7 on an even row, 8 on an odd row
WhiteCell(k) ==
    LET p == k \div BOARD_SIZE
        j == k % BOARD_SIZE
    IN IF j < 7 THEN <<2 * p, PairCol(2, j)>>
       ELSE <<2 * p + 1, PairCol(0, j - 7)>>

\* BLACK and WHITE take the cells of their colour in turn
FillOrder ==
    [i \in 1 .. (BOARD_SIZE * BOARD_SIZE) |->
        IF i % 2 = 1 THEN BlackCell((i - 1) \div 2) ELSE WhiteCell((i - 2) \div 2)]

FillLine ==
    [opening |-> SubSeq(FillOrder, 1, BOARD_SIZE * BOARD_SIZE - FillFree),
     free |-> {FillOrder[i] : i \in (BOARD_SIZE * BOARD_SIZE - FillFree + 1)
                                     .. (BOARD_SIZE * BOARD_SIZE)}]

\* BLACK on row 7 from column 3, WHITE on row 8 below it
RowLine ==
    [opening |-> << <<7, 3>>, <<8, 3>>, <<7, 4>>, <<8, 4>>, <<7, 5>>, <<8, 5>> >>,
     free |-> {<<7, 6>>, <<7, 7>>, <<7, 8>>, <<8, 6>>, <<8, 7>>}]

\* BLACK on the main diagonal, WHITE on the anti-diagonal; both need (5, 5)
DiagLine ==
    [opening |-> << <<1, 1>>, <<1, 9>>, <<2, 2>>, <<2, 8>>,
                    <<3, 3>>, <<3, 7>>, <<4, 4>>, <<4, 6>> >>,
     free |-> {<<0, 0>>, <<5, 5>>, <<0, 10>>, <<6, 4>>}]

\* BLACK down the left edge, WHITE down the right edge
EdgeLine ==
    [opening |-> << <<10, 0>>, <<10, 14>>, <<11, 0>>, <<11, 14>>,
                    <<12, 0>>, <<12, 14>>, <<13, 0>>, <<13, 14>> >>,
     free |-> {<<14, 0>>, <<9, 0>>, <<14, 14>>, <<9, 14>>}]

\* BLACK on row 12 with a gap at column 6: closing it makes six or seven
OverLine ==
    [opening |-> << <<12, 3>>, <<10, 3>>, <<12, 4>>, <<10, 5>>, <<12, 5>>,
                    <<10, 7>>, <<12, 7>>, <<10, 9>>, <<12, 8>>, <<10, 11>> >>,
     free |-> {<<12, 6>>, <<12, 9>>, <<12, 2>>}]

Lines == {RowLine, DiagLine, EdgeLine, OverLine, FillLine}

\* clicks outside the grid: a row or a column below 0 or above 14
OutOfGrid == {<<0 - 1, 7>>, <<BOARD_SIZE, 7>>, <<7, 0 - 1>>, <<7, BOARD_SIZE>>}

HistCells(h) == [i \in 1 .. Len(h) |-> <<h[i].row, h[i].col>>]

IsPrefix(s, t) == Len(s) <= Len(t) /\ \A i \in 1 .. Len(s) : s[i] = t[i]

\* the cells a line of play offers after the moves of h
Offered(h) ==
    UNION { IF Len(h) < Len(l.opening) /\ IsPrefix(HistCells(h), l.opening)
               THEN {l.opening[Len(h) + 1]}
            ELSE IF IsPrefix(l.opening, HistCells(h)) THEN l.free
            ELSE {} : l \in Lines }

\* the opening of the full-board line is being played: until it is played
\* out the user does nothing but place its next stone
FillingUp ==
    /\ Len(moveHistory) > 0
    /\ Len(moveHistory) < Len(FillLine.opening)
    /\ IsPrefix(HistCells(moveHistory), FillLine.opening)

\* the cells the user may click: offered ones (empty or taken), the stone
\* placed last, and cells outside the grid
Clicks ==
    IF FillingUp THEN Offered(moveHistory)
    ELSE Offered(moveHistory) \cup OutOfGrid
             \cup (IF lastMove = null THEN {} ELSE {lastMove})

-----------------------------------------------------------------------------
(* State *)

TypeOK ==
    /\ board \in [Idx -> [Idx -> {EMPTY, BLACK, WHITE}]]
    /\ currentPlayer \in {BLACK, WHITE}
    /\ gameStatus \in GAME_STATUS
    /\ lastMove = null \/ (lastMove[1] \in Idx /\ lastMove[2] \in Idx)
    /\ showModal \in BOOLEAN
    /\ errorMessage \in {NoMsg, MsgNotPlaying, MsgOccupied, MsgNothingToUndo}
    /\ timerPending \in BOOLEAN

\* the record of the handler that runs: its name and arguments, the status it
\* finds, whether it throws, and in prev the state an accepted placement
\* finds; an undo right after a click carries over the prev of the click
Op(name, row, col, threw) ==
    [name |-> name, row |-> row, col |-> col, from |-> gameStatus, threw |-> threw,
     prev |-> IF name = "handleCellClick"
              THEN IF /\ ~notPlaying(gameStatus)
                      /\ row \in Idx
                      /\ ~isOccupied(board, row, col)
                   THEN gameVars ELSE <<>>
              ELSE IF name = "handleUndo" /\ lastOp.name = "handleCellClick"
              THEN lastOp.prev
              ELSE <<>>]

\* useState initial values, then the mount effect's initializeBoard().  (The
\* render before the effect reads board[row][col] of the initial board [];
\* the handlers are modelled from the state initializeBoard sets up.)
Init ==
    /\ board = EmptyBoard
    /\ currentPlayer = BLACK
    /\ gameStatus = PLAYING
    /\ moveHistory = <<>>
    /\ lastMove = null
    /\ showModal = FALSE
    /\ modalContent = [title |-> "", message |-> ""]
    /\ errorMessage = NoMsg
    /\ timerPending = FALSE
    /\ lastOp = [name |-> "mount", row |-> 0 - 1, col |-> 0 - 1,
                 from |-> PLAYING, threw |-> FALSE, prev |-> <<>>]

-----------------------------------------------------------------------------
(* Handlers *)

\* variant of Reject: the notice is set, the setTimeout is missing
RejectNoTimer(msg) ==
    /\ errorMessage' = msg
    /\ UNCHANGED <<gameVars, showModal, modalContent, timerPending>>

\* setErrorMessage(msg); setTimeout(() => setErrorMessage(''), 2000); return
Reject(msg) ==
    /\ errorMessage' = msg
    /\ timerPending' = TRUE
    /\ UNCHANGED <<gameVars, showModal, modalContent>>

handleCellClick(row, col) ==
    /\ lastOp' = Op("handleCellClick", row, col,
                    ~notPlaying(gameStatus) /\ row \notin Idx)
    /\ IF notPlaying(gameStatus)
       THEN Reject(MsgNotPlaying)
       ELSE IF row \notin Idx
       THEN \* board[row] is undefined: board[row][col] throws a TypeError
            UNCHANGED <<gameVars, showModal, modalContent, errorMessage, timerPending>>
       ELSE IF isOccupied(board, row, col)
       THEN \* board[row][col] is undefined or a stone: !== EMPTY
            Reject(MsgOccupied)
       ELSE /\ board' = PlaceOn(board, row, col, currentPlayer)
            /\ moveHistory' = Append(moveHistory,
                   [row |-> row, col |-> col, player |-> currentPlayer])
            /\ lastMove' = <<row, col>>
            /\ IF checkWin(board, row, col, currentPlayer)
               THEN /\ gameStatus' = winnerStatus(currentPlayer)
                    /\ modalContent' = [title |-> "game over",
                                        message |-> winnerMessage(currentPlayer)]
                    /\ showModal' = TRUE
                    /\ UNCHANGED currentPlayer
               ELSE IF checkDraw(board)
               THEN /\ gameStatus' = DRAW
                    /\ modalContent' = [title |-> "game over", message |-> MsgDraw]
                    /\ showModal' = TRUE
                    /\ UNCHANGED currentPlayer
               ELSE /\ currentPlayer' = otherPlayer(currentPlayer)
                    /\ UNCHANGED <<gameStatus, modalContent, showModal>>
            /\ UNCHANGED <<errorMessage, timerPending>>

\* variant of handleUndo: the status is set to PLAYING before the history is
\* looked at
handleUndoResumesFirst ==
    /\ lastOp' = Op("handleUndo", 0 - 1, 0 - 1, FALSE)
    /\ gameStatus' = PLAYING
    /\ IF Len(moveHistory) = 0
       THEN /\ errorMessage' = MsgNothingToUndo
            /\ timerPending' = TRUE
            /\ UNCHANGED <<board, currentPlayer, moveHistory, lastMove,
                           showModal, modalContent>>
       ELSE LET newMoveHistory == SubSeq(moveHistory, 1, Len(moveHistory) - 1)
            IN /\ moveHistory' = newMoveHistory
               /\ board' = RebuildBoard(newMoveHistory)
               /\ lastMove' = LastOf(newMoveHistory)
               /\ currentPlayer' = lastPlayer(moveHistory)
               /\ showModal' = FALSE
               /\ UNCHANGED <<modalContent, errorMessage, timerPending>>

\* variant of handleUndo: without setGameStatus(PLAYING)
handleUndoKeepsStatus ==
    /\ lastOp' = Op("handleUndo", 0 - 1, 0 - 1, FALSE)
    /\ IF Len(moveHistory) = 0
       THEN Reject(MsgNothingToUndo)
       ELSE LET newMoveHistory == SubSeq(moveHistory, 1, Len(moveHistory) - 1)
            IN /\ moveHistory' = newMoveHistory
               /\ board' = RebuildBoard(newMoveHistory)
               /\ lastMove' = LastOf(newMoveHistory)
               /\ currentPlayer' = lastPlayer(moveHistory)
               /\ showModal' = FALSE
               /\ UNCHANGED <<gameStatus, modalContent, errorMessage, timerPending>>

handleUndo ==
    /\ lastOp' = Op("handleUndo", 0 - 1, 0 - 1, FALSE)
    /\ IF Len(moveHistory) = 0
       THEN Reject(MsgNothingToUndo)
       ELSE LET newMoveHistory == SubSeq(moveHistory, 1, Len(moveHistory) - 1)
            IN /\ moveHistory' = newMoveHistory
               /\ board' = RebuildBoard(newMoveHistory)
               /\ lastMove' = LastOf(newMoveHistory)
               /\ currentPlayer' = lastPlayer(moveHistory)
               /\ gameStatus' = PLAYING
               /\ showModal' = FALSE
               /\ UNCHANGED <<modalContent, errorMessage, timerPending>>

handlePauseResume ==
    /\ lastOp' = Op("handlePauseResume", 0 - 1, 0 - 1, FALSE)
    /\ gameStatus' = pauseTarget(gameStatus)
    /\ UNCHANGED <<board, currentPlayer, moveHistory, lastMove,
                   showModal, modalContent, errorMessage, timerPending>>

\* variant of handleNewGame: initializeBoard without setCurrentPlayer(BLACK)
handleNewGameKeepsPlayer ==
    /\ lastOp' = Op("handleNewGame", 0 - 1, 0 - 1, FALSE)
    /\ board' = EmptyBoard
    /\ gameStatus' = PLAYING
    /\ moveHistory' = <<>>
    /\ lastMove' = null
    /\ errorMessage' = NoMsg
    /\ showModal' = FALSE
    /\ UNCHANGED <<currentPlayer, modalContent, timerPending>>

\* initializeBoard(); setShowModal(false)
handleNewGame ==
    /\ lastOp' = Op("handleNewGame", 0 - 1, 0 - 1, FALSE)
    /\ board' = EmptyBoard
    /\ currentPlayer' = BLACK
    /\ gameStatus' = PLAYING
    /\ moveHistory' = <<>>
    /\ lastMove' = null
    /\ errorMessage' = NoMsg
    /\ showModal' = FALSE
    /\ UNCHANGED <<modalContent, timerPending>>

\* the modal's close button: () => setShowModal(false)
closeModal ==
    /\ showModal
    /\ lastOp' = Op("closeModal", 0 - 1, 0 - 1, FALSE)
    /\ showModal' = FALSE
    /\ UNCHANGED <<gameVars, modalContent, errorMessage, timerPending>>

\* a pending timeout fires: () => setErrorMessage(''); others may still be
\* pending
timerFires ==
    /\ timerPending
    /\ lastOp' = Op("timer", 0 - 1, 0 - 1, FALSE)
    /\ errorMessage' = NoMsg
    /\ timerPending' \in BOOLEAN
    /\ UNCHANGED <<gameVars, showModal, modalContent>>

Next ==
    \/ \E cell \in Clicks : handleCellClick(cell[1], cell[2])
    \/ ~FillingUp /\ handleUndo
    \/ ~FillingUp /\ handlePauseResume
    \/ ~FillingUp /\ handleNewGame
    \/ ~FillingUp /\ closeModal
    \/ timerFires

Spec == Init /\ [][Next]_vars

\* a timeout that is set fires: the callbacks of setTimeout are run by the
\* event loop 2000 ms after the rejection
FairSpec == Spec /\ WF_vars(timerFires)

-----------------------------------------------------------------------------
(* Vocabulary of the properties *)

InGrid(row, col) == row \in Idx /\ col \in Idx

\* the step is handleCellClick(lastOp'.row, lastOp'.col)
Clicked == lastOp'.name = "handleCellClick"

\* ... on an empty cell of the grid while the game is in progress
Accepted ==
    /\ Clicked
    /\ gameStatus = PLAYING
    /\ InGrid(lastOp'.row, lastOp'.col)
    /\ board[lastOp'.row][lastOp'.col] = EMPTY

Undone == lastOp'.name = "handleUndo"

Toggled == lastOp'.name = "handlePauseResume"

\* the four orientations: horizontal, vertical, both diagonals
Orientations == {<<0, 1>>, <<1, 0>>, <<1, 1>>, <<1, 0 - 1>>}

\* five cells in a row in orientation d, the k-th of them (row, col), all
\* inside the grid and all holding a stone of p
FiveThrough(b, row, col, p) ==
    \E d \in Orientations : \E k \in 0 .. 4 :
        \A j \in 0 .. 4 :
            LET r == row + (j - k) * d[1]
                c == col + (j - k) * d[2]
            IN InGrid(r, c) /\ b[r][c] = p

\* five or more in a row of one colour anywhere on the board
FiveAnywhere(b) ==
    \E r \in Idx : \E c \in Idx :
        b[r][c] # EMPTY /\ FiveThrough(b, r, c, b[r][c])

Full(b) == \A r \in Idx : \A c \in Idx : b[r][c] # EMPTY

Stones(b, p) == Cardinality({cell \in Idx \X Idx : b[cell[1]][cell[2]] = p})

\* the cells of the moves of BLACK, in order
BlackMoves(h) ==
    [k \in 1 .. ((Len(h) + 1) \div 2) |-> <<h[2 * k - 1].row, h[2 * k - 1].col>>]

FiveOnRowSeven == << <<7, 3>>, <<7, 4>>, <<7, 5>>, <<7, 6>>, <<7, 7>> >>

-----------------------------------------------------------------------------
(* C1: an accepted placement by player P at (row, col) sets P's win status *)
(* exactly when, on the board after it, five or more stones of P in a row  *)
(* pass through (row, col) in one of the four orientations; otherwise no   *)
(* win status is set.  BLACK on (7,3), (7,4), (7,5), (7,6) and then (7,7)  *)
(* has BLACK_WIN with the fifth of these stones and not before.            *)
C1_PlacementWins ==
    [][Accepted =>
         LET five == FiveThrough(board', lastOp'.row, lastOp'.col, currentPlayer)
         IN /\ five =>
                gameStatus' = (IF currentPlayer = BLACK THEN BLACK_WIN ELSE WHITE_WIN)
            /\ ~five => gameStatus' \notin {BLACK_WIN, WHITE_WIN}]_vars

C1_RowSeven ==
    LET bm == BlackMoves(moveHistory)
    IN /\ (bm = FiveOnRowSeven /\ Len(moveHistory) = 9) => gameStatus = BLACK_WIN
       /\ (Len(bm) < 5 /\ IsPrefix(bm, FiveOnRowSeven)) => gameStatus # BLACK_WIN

\* C1: the win status follows five in a row through the placed stone, on
\* every accepted placement and in the game on row 7
C1_WinIffFive == C1_PlacementWins /\ []C1_RowSeven

C1_Witness ==
    /\ lastOp.name = "handleCellClick"
    /\ lastOp.from = PLAYING
    /\ lastMove = <<7, 7>>
    /\ BlackMoves(moveHistory) = FiveOnRowSeven
    /\ gameStatus = BLACK_WIN

-----------------------------------------------------------------------------
(* C2: the accepted placement that fills the last empty cell without       *)
(* completing five in a row sets the status to DRAW, and the status is     *)
(* never DRAW while a cell is empty: on a full board the game is over.     *)
C2_FullBoardIsDraw ==
    /\ (Full(board) /\ ~FiveAnywhere(board)) => gameStatus = DRAW
    /\ gameStatus = DRAW => Full(board)

-----------------------------------------------------------------------------
(* C3: undo with a non-empty history, whatever the status, removes exactly *)
(* the last move from the history, empties the cell of that move and       *)
(* leaves every other cell as it was, gives the turn to the player of the  *)
(* undone move and sets the status to PLAYING.                             *)
C3_UndoRemovesLastMove ==
    [][(Undone /\ Len(moveHistory) > 0) =>
         LET last == moveHistory[Len(moveHistory)]
         IN /\ moveHistory' = SubSeq(moveHistory, 1, Len(moveHistory) - 1)
            /\ board' = [board EXCEPT ![last.row][last.col] = EMPTY]
            /\ board[last.row][last.col] = last.player
            /\ currentPlayer' = last.player
            /\ gameStatus' = PLAYING]_vars

\* undo has just taken back the winning stone of BLACK
C3_Witness ==
    /\ lastOp.name = "handleUndo"
    /\ lastOp.from = BLACK_WIN
    /\ gameStatus = PLAYING
    /\ currentPlayer = BLACK
    /\ ~FiveAnywhere(board)

-----------------------------------------------------------------------------
(* C4: in every reachable state the number of non-empty cells equals the   *)
(* length of the history, and BLACK has as many stones as WHITE or one     *)
(* more.                                                                   *)
C4_StoneCount ==
    /\ Stones(board, BLACK) + Stones(board, WHITE) = Len(moveHistory)
    /\ Stones(board, BLACK) - Stones(board, WHITE) \in {0, 1}

\* after an undo in the middle of a game, BLACK one stone ahead
C4_Witness ==
    /\ lastOp.name = "handleUndo"
    /\ Len(moveHistory) >= 7
    /\ Stones(board, BLACK) = Stones(board, WHITE) + 1

-----------------------------------------------------------------------------
(* C5: in every reachable state the board is the board that the moves of   *)
(* the history, applied in order to an empty grid, produce: no two moves   *)
(* are on the same cell, every move's cell holds the move's player, and    *)
(* every cell without a move is EMPTY.                                     *)
MoveCells(h) == {<<h[i].row, h[i].col>> : i \in 1 .. Len(h)}

C5_BoardIsReplayOfHistory ==
    LET cells == MoveCells(moveHistory)
    IN /\ Cardinality(cells) = Len(moveHistory)
       /\ \A i \in 1 .. Len(moveHistory) :
              /\ InGrid(moveHistory[i].row, moveHistory[i].col)
              /\ board[moveHistory[i].row][moveHistory[i].col] = moveHistory[i].player
       /\ \A cell \in (Idx \X Idx) \ cells : board[cell[1]][cell[2]] = EMPTY

\* a board rebuilt by undo, with moves left on it
C5_Witness ==
    /\ lastOp.name = "handleUndo"
    /\ Len(moveHistory) >= 7
    /\ lastOp.from = PLAYING

-----------------------------------------------------------------------------
(* C6: turns alternate with BLACK first: the moves of the history are      *)
(* BLACK, WHITE, BLACK, ...; while the status is PLAYING or PAUSED it is   *)
(* BLACK's turn iff the history has even length; an accepted placement     *)
(* changes currentPlayer only if the game continues.                       *)
C6_HistoryAlternates ==
    /\ \A i \in 1 .. Len(moveHistory) :
           moveHistory[i].player = (IF i % 2 = 1 THEN BLACK ELSE WHITE)
    /\ gameStatus \in {PLAYING, PAUSED} =>
           (currentPlayer = BLACK <=> Len(moveHistory) % 2 = 0)

C6_PlacementToggles ==
    [][Accepted =>
         /\ currentPlayer' # currentPlayer => gameStatus' = PLAYING
         /\ gameStatus' \in {BLACK_WIN, WHITE_WIN, DRAW} =>
                currentPlayer' = currentPlayer]_vars

\* C6: the history alternates from BLACK, the turn follows its parity, and a
\* placement that ends the game keeps currentPlayer
C6_TurnsAlternate == []C6_HistoryAlternates /\ C6_PlacementToggles

\* WHITE has just won: the turn stays with WHITE
C6_Witness ==
    /\ lastOp.name = "handleCellClick"
    /\ gameStatus = WHITE_WIN
    /\ currentPlayer = WHITE
    /\ Len(moveHistory) % 2 = 0

-----------------------------------------------------------------------------
(* C7: a click on an occupied cell of the grid while the status is PLAYING *)
(* leaves board, history, status, currentPlayer and lastMove unchanged.    *)
C7_OccupiedCellRejected ==
    [][(/\ Clicked
        /\ gameStatus = PLAYING
        /\ InGrid(lastOp'.row, lastOp'.col)
        /\ board[lastOp'.row][lastOp'.col] # EMPTY) => UNCHANGED gameVars]_vars

\* the click was on a stone that is not the one placed last
C7_Witness ==
    /\ lastOp.name = "handleCellClick"
    /\ lastOp.from = PLAYING
    /\ InGrid(lastOp.row, lastOp.col)
    /\ board[lastOp.row][lastOp.col] # EMPTY
    /\ lastMove # <<lastOp.row, lastOp.col>>
    /\ errorMessage = MsgOccupied

-----------------------------------------------------------------------------
(* C8: a click while the status is not PLAYING, on any cell, leaves board, *)
(* history, status, currentPlayer and lastMove unchanged.                  *)
C8_NotPlayingRejected ==
    [][(Clicked /\ gameStatus # PLAYING) => UNCHANGED gameVars]_vars

\* the click was on an empty cell of the grid while the game was paused
C8_Witness ==
    /\ lastOp.name = "handleCellClick"
    /\ lastOp.from = PAUSED
    /\ InGrid(lastOp.row, lastOp.col)
    /\ board[lastOp.row][lastOp.col] = EMPTY
    /\ Len(moveHistory) >= 7

-----------------------------------------------------------------------------
(* C9: undo with an empty history changes nothing of board, history,       *)
(* status, currentPlayer and lastMove; a PAUSED status stays PAUSED.       *)
C9_NothingToUndo ==
    [][(Undone /\ Len(moveHistory) = 0) => UNCHANGED gameVars]_vars

C9_Witness ==
    /\ lastOp.name = "handleUndo"
    /\ lastOp.from = PAUSED
    /\ moveHistory = <<>>
    /\ gameStatus = PAUSED

-----------------------------------------------------------------------------
(* C10: togglePause turns PLAYING into PAUSED and PAUSED into PLAYING and  *)
(* leaves a terminal status as it is; it never changes board, history,     *)
(* currentPlayer or lastMove.                                              *)
C10_TogglePause ==
    [][Toggled =>
         /\ gameStatus = PLAYING => gameStatus' = PAUSED
         /\ gameStatus = PAUSED => gameStatus' = PLAYING
         /\ gameStatus \in {BLACK_WIN, WHITE_WIN, DRAW} => gameStatus' = gameStatus
         /\ UNCHANGED <<board, moveHistory, currentPlayer, lastMove>>]_vars

\* togglePause after BLACK has won
C10_Witness ==
    /\ lastOp.name = "handlePauseResume"
    /\ lastOp.from = BLACK_WIN
    /\ gameStatus = BLACK_WIN

-----------------------------------------------------------------------------
(* C11: every change of the status in one step is PLAYING to PAUSED by      *)
(* togglePause; PAUSED to PLAYING by togglePause, undo or reset; PLAYING to *)
(* a terminal status by a placement; or a terminal status to PLAYING by     *)
(* undo or reset.  No step leads from PAUSED to a terminal status, from a   *)
(* terminal status to PAUSED, or from one terminal status to another.       *)
Terminal == {BLACK_WIN, WHITE_WIN, DRAW}

C11_StatusTransitions ==
    [][gameStatus' # gameStatus =>
         \/ /\ gameStatus = PLAYING /\ gameStatus' = PAUSED
            /\ lastOp'.name = "handlePauseResume"
         \/ /\ gameStatus = PAUSED /\ gameStatus' = PLAYING
            /\ lastOp'.name \in {"handlePauseResume", "handleUndo", "handleNewGame"}
         \/ /\ gameStatus = PLAYING /\ gameStatus' \in Terminal
            /\ Accepted
         \/ /\ gameStatus \in Terminal /\ gameStatus' = PLAYING
            /\ lastOp'.name \in {"handleUndo", "handleNewGame"}]_vars

\* undo has just turned PAUSED into PLAYING
C11_Witness ==
    /\ lastOp.name = "handleUndo"
    /\ lastOp.from = PAUSED
    /\ gameStatus = PLAYING
    /\ Len(moveHistory) >= 1

-----------------------------------------------------------------------------
(* C12: a click outside the grid while the status is PLAYING, with the row *)
(* out of range or with only the column out of range, is rejected without  *)
(* an exception and leaves board, history, status and currentPlayer        *)
(* unchanged.                                                              *)
C12_OutOfGridRejected ==
    [][(/\ Clicked
        /\ gameStatus = PLAYING
        /\ ~InGrid(lastOp'.row, lastOp'.col)) =>
         /\ UNCHANGED <<board, moveHistory, gameStatus, currentPlayer>>
         /\ ~lastOp'.threw]_vars

-----------------------------------------------------------------------------
(* C13: reset, from any state, gives the initial state: every cell EMPTY,  *)
(* currentPlayer BLACK, status PLAYING, history empty, lastMove none.      *)
C13_ResetGivesInitialState ==
    [][lastOp'.name = "handleNewGame" =>
         /\ \A r \in Idx : \A c \in Idx : board'[r][c] = EMPTY
         /\ currentPlayer' = BLACK
         /\ gameStatus' = PLAYING
         /\ moveHistory' = <<>>
         /\ lastMove' = null]_vars

\* reset after WHITE has won
C13_Witness ==
    /\ lastOp.name = "handleNewGame"
    /\ lastOp.from = WHITE_WIN
    /\ moveHistory = <<>>
    /\ currentPlayer = BLACK

-----------------------------------------------------------------------------
(* C14: in every reachable state, while the status is PLAYING or PAUSED no *)
(* five or more stones of one colour are in a row anywhere on the board;   *)
(* while it is BLACK_WIN (WHITE_WIN) the last move of the history is a     *)
(* move of BLACK (WHITE) and five or more stones of that colour in a row   *)
(* pass through its cell.                                                  *)
\* five stones of one colour in a row, starting at some cell (r, c) and
\* going down or to the right in one of the four orientations
FiveInARow(b) ==
    \E r \in Idx : \E c \in Idx :
        /\ b[r][c] # EMPTY
        /\ \E d \in Orientations : \A j \in 1 .. 4 :
               /\ InGrid(r + j * d[1], c + j * d[2])
               /\ b[r + j * d[1]][c + j * d[2]] = b[r][c]

WonBy(p) ==
    /\ Len(moveHistory) > 0
    /\ LET last == moveHistory[Len(moveHistory)]
       IN /\ last.player = p
          /\ FiveThrough(board, last.row, last.col, p)

C14_FiveOnlyWhenWon ==
    /\ gameStatus \in {PLAYING, PAUSED} => ~FiveInARow(board)
    /\ gameStatus = BLACK_WIN => WonBy(BLACK)
    /\ gameStatus = WHITE_WIN => WonBy(WHITE)

\* undo has just taken back the winning stone of WHITE
C14_Witness ==
    /\ lastOp.name = "handleUndo"
    /\ lastOp.from = WHITE_WIN
    /\ gameStatus = PLAYING
    /\ currentPlayer = WHITE
    /\ Len(moveHistory) >= 9

-----------------------------------------------------------------------------
(* C15: in every reachable state lastMove is none iff the history is empty *)
(* and otherwise is the (row, col) of the last move of the history.        *)
C15_LastMoveIsLastOfHistory ==
    /\ lastMove = null <=> Len(moveHistory) = 0
    /\ Len(moveHistory) > 0 =>
           lastMove = <<moveHistory[Len(moveHistory)].row,
                        moveHistory[Len(moveHistory)].col>>

\* lastMove recomputed by an undo while the game was paused
C15_Witness ==
    /\ lastOp.name = "handleUndo"
    /\ lastOp.from = PAUSED
    /\ Len(moveHistory) >= 7
    /\ lastMove # null

-----------------------------------------------------------------------------
(* C16: an accepted placement immediately followed by undo restores board, *)
(* history, currentPlayer, status and lastMove to their values before the  *)
(* placement, whether or not the placement won or filled the board.        *)
C16_PlaceThenUndo ==
    (lastOp.name = "handleUndo" /\ lastOp.prev # <<>>) => gameVars = lastOp.prev

\* the placement that was undone had won the game for WHITE
C16_Witness ==
    /\ lastOp.name = "handleUndo"
    /\ lastOp.prev # <<>>
    /\ lastOp.from = WHITE_WIN
    /\ gameVars = lastOp.prev

-----------------------------------------------------------------------------
(* C17: every rejected click (the status is not PLAYING, or the cell is    *)
(* taken or its column is outside the grid) and every rejected undo sets a *)
(* non-empty notice and a timer to clear it; a timer that fires clears the *)
(* notice and changes nothing of board, history, status, currentPlayer and *)
(* lastMove, whatever handlers ran in between; and, timers firing fairly,  *)
(* a notice that is shown is eventually cleared.                           *)
RejectedStep ==
    \/ /\ Clicked
       /\ \/ gameStatus # PLAYING
          \/ /\ lastOp'.row \in Idx
             /\ \/ lastOp'.col \notin Idx
                \/ board[lastOp'.row][lastOp'.col] # EMPTY
    \/ Undone /\ Len(moveHistory) = 0

C17_RejectionSetsNotice ==
    [][RejectedStep =>
         /\ errorMessage' # NoMsg
         /\ timerPending'
         /\ UNCHANGED gameVars]_vars

C17_TimerClearsNoticeOnly ==
    [][lastOp'.name = "timer" =>
         /\ timerPending
         /\ errorMessage' = NoMsg
         /\ UNCHANGED gameVars]_vars

C17_NoticeEventuallyCleared ==
    (errorMessage # NoMsg) ~> (errorMessage = NoMsg)

\* C17: notices are set with a timer, cleared by it, and leave the game alone
C17_NoticesAreTransient ==
    /\ C17_RejectionSetsNotice
    /\ C17_TimerClearsNoticeOnly
    /\ [](errorMessage # NoMsg => timerPending)
    /\ C17_NoticeEventuallyCleared

\* the last timer has fired in the middle of a paused game
C17_Witness ==
    /\ lastOp.name = "timer"
    /\ errorMessage = NoMsg
    /\ ~timerPending
    /\ gameStatus = PAUSED
    /\ Len(moveHistory) >= 7

====
